---- MODULE Spec2Model ----
(***************************************************************************)
(* Model of mersenne.py: Mersenne's law for an ideal vibrating string.     *)
(*                                                                         *)
(* Numbers.  Every formula of the program is a product, a quotient, a      *)
(* square, a square root or a power of two, and is applied to positive     *)
(* values.  A positive value is therefore kept exactly, as the vector of   *)
(* its exponents over the multiplicatively independent bases 2, 3, 5, 11   *)
(* and pi, counted in units of 1/Unit:                                     *)
(*      x  =  2^(x["2"]/Unit) * 3^(x["3"]/Unit) * ... * pi^(x["pi"]/Unit)  *)
(* Two vectors are equal exactly when the real numbers are.  The rounding  *)
(* of Python floats is not modelled.                                       *)
(***************************************************************************)
EXTENDS Integers, Sequences, FiniteSets, TLC

VARIABLES
    input,      \* the dict handed to complete_data, as the caller built it
    data,       \* the same dict object, mutated in place by complete_data
    pc,         \* position in __main__ / complete_data
    missing,    \* local of complete_data
    available,  \* local of complete_data
    err,        \* the exception that ended the program, if any
    solver,     \* direct use of the four Mersenne formulas
    ntf         \* direct use of note_to_freq

vars == <<input, data, pc, missing, available, err, solver, ntf>>

(***************************************************************************)
(* Bounds of the model.                                                    *)
(***************************************************************************)
MaxExp == 1
MaxOctave == 5
MaxCalls == 3

(***************************************************************************)
(* Exact positive numbers.                                                 *)
(***************************************************************************)
Bases == {"2", "3", "5", "11", "pi"}

\* 12 semitones per octave (2 ** (k/12)), halved once more by sqrt.
Unit == 12 * 2

One == [b \in Bases |-> 0]

Base(p) == [b \in Bases |-> IF b = p THEN Unit ELSE 0]

Mul(x, y) == [b \in Bases |-> x[b] + y[b]]

Div(x, y) == [b \in Bases |-> x[b] - y[b]]

Square(x) == [b \in Bases |-> 2 * x[b]]

\* math.sqrt; a value whose root leaves the representation is no number at
\* all, so that any later arithmetic on it is an evaluation error.
Sqrt(x) ==
    IF \A b \in Bases : x[b] % 2 = 0
    THEN [b \in Bases |-> x[b] \div 2]
    ELSE "inexact"

\* 2 ** (twelfths / 12)
Pow2(twelfths) == [b \in Bases |-> IF b = "2" THEN (Unit \div 12) * twelfths ELSE 0]

\* 2^i * 3^j * 5^k, for integer i, j, k
Num(i, j, k) ==
    [b \in Bases |-> CASE b = "2" -> Unit * i
                       [] b = "3" -> Unit * j
                       [] b = "5" -> Unit * k
                       [] OTHER   -> 0]

Two == Base("2")

pi == Base("pi")

\* the literal 440 = 2^3 * 5 * 11
DefaultBasefreq == Mul(Num(3, 0, 1), Base("11"))

DefaultOctave == 4

(***************************************************************************)
(* tools                                                                   *)
(***************************************************************************)
\* A str is the sequence of its characters.
notes ==
    (<<"c">> :> 0) @@
    (<<"c", "#">> :> 1) @@ (<<"d", "b">> :> 1) @@
    (<<"d">> :> 2) @@
    (<<"d", "#">> :> 3) @@ (<<"e", "b">> :> 3) @@
    (<<"e">> :> 4) @@
    (<<"f">> :> 5) @@
    (<<"f", "#">> :> 6) @@ (<<"g", "b">> :> 6) @@
    (<<"g">> :> 7) @@
    (<<"g", "#">> :> 8) @@ (<<"a", "b">> :> 8) @@
    (<<"a">> :> 9) @@
    (<<"a", "#">> :> 10) @@ (<<"b", "b">> :> 10) @@
    (<<"b">> :> 11)

\* basefreq * 2 ** (octave-4 + (notes[note]-9)/12); notes[note] raises
\* KeyError when note is no key of the table (see NoteKnown).
note_to_freq(note, octave, basefreq) ==
    Mul(basefreq, Pow2(12 * (octave - 4) + (notes[note] - 9)))

NoteKnown(note) == note \in DOMAIN notes

radius_to_linear_mass(radius, volumic_mass) ==
    Mul(Mul(volumic_mass, pi), Square(radius))

linear_mass_to_radius(linear_mass, volumic_mass) ==
    Sqrt(Div(linear_mass, Mul(volumic_mass, pi)))

(***************************************************************************)
(* Mersenne's law formulas                                                 *)
(***************************************************************************)
get_freq_halved(length, tension, linear_mass) ==
    Mul(Div(length, Two), Sqrt(Div(tension, linear_mass)))

get_freq(length, tension, linear_mass) ==
    Div(Sqrt(Div(tension, linear_mass)), Mul(Two, length))

get_tension_unsquared(linear_mass, length, freq) ==
    Mul(Mul(Two, Mul(freq, length)), linear_mass)

get_tension(linear_mass, length, freq) ==
    Mul(Square(Mul(Two, Mul(freq, length))), linear_mass)

get_linear_mass(tension, length, freq) ==
    Div(tension, Square(Mul(Two, Mul(freq, length))))

get_length_times(linear_mass, tension, freq) ==
    Mul(Sqrt(Div(tension, linear_mass)), Mul(Two, freq))

get_length(linear_mass, tension, freq) ==
    Div(Sqrt(Div(tension, linear_mass)), Mul(Two, freq))

(***************************************************************************)
(* data processing                                                         *)
(***************************************************************************)
param_names ==
    {"freq", "tension", "linear_mass", "length",
     "note", "octave", "basefreq", "diameter", "radius", "volumic_mass"}

\* the list iterated at line 157, in its order
main_params == <<"freq", "tension", "linear_mass", "length">>

Primaries == {main_params[i] : i \in DOMAIN main_params}

\* d[k] = v on a dict
Put(d, k, v) == [x \in DOMAIN d \cup {k} |-> IF x = k THEN v ELSE d[x]]

NoErr == [type |-> "none", arg |-> <<>>]

Idle == [pc |-> "off"]

\* note_to_freq(**note_data): a key absent from note_data takes its default
note_to_freq_kw(note_data) ==
    note_to_freq(
        note_data["note"],
        IF "octave" \in DOMAIN note_data THEN note_data["octave"] ELSE DefaultOctave,
        IF "basefreq" \in DOMAIN note_data THEN note_data["basefreq"] ELSE DefaultBasefreq)

\* lines 136-140: the arguments collected for note_to_freq
NoteData(d) == [k \in DOMAIN d \cap {"note", "octave", "basefreq"} |-> d[k]]

NeedsNoteAlways(d) == "note" \in DOMAIN d

\* line 135
NeedsNote(d) == "freq" \notin DOMAIN d /\ "note" \in DOMAIN d

\* lines 134-142: note to frequency conversion
NoteStep ==
    /\ pc = "note"
    /\ IF NeedsNote(data)
       THEN IF NoteKnown(data["note"])
            THEN /\ data' = Put(data, "freq", note_to_freq_kw(NoteData(data)))
                 /\ pc' = "radius"
                 /\ err' = err
            ELSE /\ err' = [type |-> "KeyError", arg |-> data["note"]]
                 /\ pc' = "raised"
                 /\ data' = data
       ELSE /\ pc' = "radius"
            /\ UNCHANGED <<data, err>>
    /\ UNCHANGED <<input, missing, available, solver, ntf>>

DiameterOverridesOnlyIfNoRadius(d) ==
    "diameter" \in DOMAIN d /\ "radius" \notin DOMAIN d

\* line 146
DiameterOverrides(d) == "diameter" \in DOMAIN d

\* lines 146-147
RadiusStep ==
    /\ pc = "radius"
    /\ data' = IF DiameterOverrides(data)
               THEN Put(data, "radius", Div(data["diameter"], Two))
               ELSE data
    /\ pc' = "linear_mass"
    /\ UNCHANGED <<input, missing, available, err, solver, ntf>>

NeedsLinearMassAlways(d) ==
    "radius" \in DOMAIN d /\ "volumic_mass" \in DOMAIN d

\* line 149
NeedsLinearMass(d) ==
    /\ "linear_mass" \notin DOMAIN d
    /\ "radius" \in DOMAIN d
    /\ "volumic_mass" \in DOMAIN d

\* lines 149-150
LinearMassStep ==
    /\ pc = "linear_mass"
    /\ data' = IF NeedsLinearMass(data)
               THEN Put(data, "linear_mass",
                        radius_to_linear_mass(data["radius"], data["volumic_mass"]))
               ELSE data
    /\ pc' = "find"
    /\ UNCHANGED <<input, missing, available, err, solver, ntf>>

IsMissing(d, param) == param \notin DOMAIN d

MissingListSkipsLength(d) ==
    SelectSeq(main_params, LAMBDA param : IsMissing(d, param) /\ param # "length")

\* lines 154-161: the list missing
MissingList(d) == SelectSeq(main_params, LAMBDA param : IsMissing(d, param))

\* lines 155-161: the dict available
Available(d) == [param \in Primaries \cap DOMAIN d |-> d[param]]

\* line 163
NothingMissing(m) == Len(m) = 0

TooManyMissingOffByOne(m) == Len(m) > 2

\* line 167
TooManyMissing(m) == Len(m) > 1

\* lines 152-168: find missing parameters, and the two raises
FindStep ==
    /\ pc = "find"
    /\ missing' = MissingList(data)
    /\ available' = Available(data)
    /\ IF NothingMissing(missing')
       THEN /\ err' = [type |-> "RuntimeWarning", arg |-> <<"Nothing to compute">>]
            /\ pc' = "raised"
       ELSE IF TooManyMissing(missing')
            THEN /\ err' = [type |-> "RuntimeError", arg |-> missing']
                 /\ pc' = "raised"
            ELSE /\ err' = err
                 /\ pc' = "compute"
    /\ UNCHANGED <<input, data, solver, ntf>>

\* lines 174-181: f(**available) binds each argument by its name
Formula(param, avail) ==
    CASE param = "freq" ->
            get_freq(avail["length"], avail["tension"], avail["linear_mass"])
      [] param = "tension" ->
            get_tension(avail["linear_mass"], avail["length"], avail["freq"])
      [] param = "linear_mass" ->
            get_linear_mass(avail["tension"], avail["length"], avail["freq"])
      [] param = "length" ->
            get_length(avail["linear_mass"], avail["tension"], avail["freq"])

\* lines 170-181: compute the missing parameter
ComputeStep ==
    /\ pc = "compute"
    /\ missing' = missing[1]
    /\ data' = Put(data, missing[1], Formula(missing[1], available))
    /\ pc' = "radius_back"
    /\ UNCHANGED <<input, available, err, solver, ntf>>

\* line 185
NeedsRadius(d) == "radius" \notin DOMAIN d /\ "volumic_mass" \in DOMAIN d

\* lines 183-187: compute radius if needed
RadiusBackStep ==
    /\ pc = "radius_back"
    /\ data' = IF NeedsRadius(data)
               THEN LET r == linear_mass_to_radius(data["linear_mass"],
                                                   data["volumic_mass"])
                    IN  Put(Put(data, "radius", r), "diameter", Mul(r, Two))
               ELSE data
    /\ pc' = "return"
    /\ UNCHANGED <<input, missing, available, err, solver, ntf>>

\* lines 124-127: what print_data reads once "radius" is in data
PrinterReads(d) ==
    IF "radius" \in DOMAIN d THEN {"radius", "diameter", "volumic_mass"} ELSE {}

\* lines 108-129, reached by line 233
print_data ==
    /\ pc = "return"
    /\ IF PrinterReads(data) \subseteq DOMAIN data
       THEN /\ pc' = "printed"
            /\ err' = err
       ELSE /\ pc' = "print_raised"
            /\ err' = [type |-> "KeyError",
                       arg |-> IF "diameter" \in DOMAIN data
                               THEN <<"volumic_mass">> ELSE <<"diameter">>]
    /\ UNCHANGED <<input, data, missing, available, solver, ntf>>

\* line 226: --json_output
json_dumps ==
    /\ pc = "return"
    /\ pc' = "printed"
    /\ UNCHANGED <<input, data, missing, available, err, solver, ntf>>

(***************************************************************************)
(* The dicts complete_data is called with (after to_SI): any subset of     *)
(* the ten parameters, positive values.                                    *)
(***************************************************************************)
LengthVals == {Num(i, 0, 0) : i \in 0..MaxExp}

NoteVals == {<<"a">>, <<"d", "b">>, <<"c", "#">>, <<"A">>, <<"h">>}

OctaveVals == 3..MaxOctave

InputDict(keys, length, note, octave) ==
    [k \in keys |->
        CASE k = "freq"         -> Num(0, 0, 1)
          [] k = "tension"      -> Num(0, 1, 0)
          [] k = "linear_mass"  -> Num(-1, 0, 0)
          [] k = "length"       -> length
          [] k = "note"         -> note
          [] k = "octave"       -> octave
          [] k = "basefreq"     -> Mul(Two, DefaultBasefreq)
          [] k = "diameter"     -> Num(-2, 0, 0)
          [] k = "radius"       -> Num(0, -1, 0)
          [] k = "volumic_mass" -> Num(0, 0, 2)]

Init ==
    /\ \E keys \in SUBSET param_names :
       \E length \in LengthVals, note \in NoteVals, octave \in OctaveVals :
          input = InputDict(keys, length, note, octave)
    /\ data = input
    /\ pc = "note"
    /\ missing = <<>>
    /\ available = <<>>
    /\ err = NoErr
    /\ solver = Idle
    /\ ntf = Idle

Next ==
    \/ NoteStep
    \/ RadiusStep
    \/ LinearMassStep
    \/ FindStep
    \/ ComputeStep
    \/ RadiusBackStep
    \/ print_data
    \/ json_dumps

Spec == Init /\ [][Next]_vars

(***************************************************************************)
(* The four formulas used on their own: any positive arguments, then any   *)
(* sequence of up to MaxCalls solves, each storing its result over the     *)
(* value it solved for.                                                    *)
(***************************************************************************)
PrimVals == {Num(i, j, 0) : i \in 0..MaxExp, j \in 0..1}

Solve(param) ==
    /\ solver.pc = "on"
    /\ Len(solver.calls) < MaxCalls
    /\ solver' = [solver EXCEPT
                    !.prev = solver.vals,
                    !.vals = [solver.vals EXCEPT ![param] = Formula(param, solver.vals)],
                    !.calls = Append(solver.calls, param)]
    /\ UNCHANGED <<input, data, pc, missing, available, err, ntf>>

SolveFreq == Solve("freq")

SolveTension == Solve("tension")

SolveLinearMass == Solve("linear_mass")

SolveLength == Solve("length")

InitMersenne ==
    /\ \E f \in PrimVals, t \in PrimVals, m \in PrimVals, l \in PrimVals :
          solver = [pc |-> "on",
                    vals |-> [freq |-> f, tension |-> t, linear_mass |-> m, length |-> l],
                    prev |-> [freq |-> f, tension |-> t, linear_mass |-> m, length |-> l],
                    calls |-> <<>>]
    /\ input = <<>>
    /\ data = <<>>
    /\ pc = "off"
    /\ missing = <<>>
    /\ available = <<>>
    /\ err = NoErr
    /\ ntf = Idle

NextMersenne ==
    \/ SolveFreq
    \/ SolveTension
    \/ SolveLinearMass
    \/ SolveLength

SpecMersenne == InitMersenne /\ [][NextMersenne]_vars

(***************************************************************************)
(* note_to_freq used on its own, on any string of one or two characters.   *)
(***************************************************************************)
LowerCaseChars == {"a", "b", "c", "d", "e", "f", "g", "h"}

UpperCaseChars == {"A", "B", "C", "D", "E", "F", "G", "H"}

NoteChars == LowerCaseChars \cup UpperCaseChars \cup {"#"}

NoteStrings == {<<c>> : c \in NoteChars} \cup (NoteChars \X NoteChars)

BasefreqVals == {DefaultBasefreq, Mul(Two, DefaultBasefreq), Num(4, 3, 0)}

\* the call returns
NtfReturn ==
    /\ ntf.pc = "call"
    /\ NoteKnown(ntf.note)
    /\ ntf' = [ntf EXCEPT !.pc = "returned",
                          !.ret = note_to_freq(ntf.note, ntf.octave, ntf.basefreq)]
    /\ UNCHANGED <<input, data, pc, missing, available, err, solver>>

\* notes[note] raises KeyError
NtfRaise ==
    /\ ntf.pc = "call"
    /\ ~NoteKnown(ntf.note)
    /\ ntf' = [ntf EXCEPT !.pc = "raised", !.err = "KeyError"]
    /\ UNCHANGED <<input, data, pc, missing, available, err, solver>>

InitNote ==
    /\ \E note \in NoteStrings, octave \in OctaveVals, basefreq \in BasefreqVals :
          ntf = [pc |-> "call", note |-> note, octave |-> octave,
                 basefreq |-> basefreq, ret |-> One, err |-> "none"]
    /\ input = <<>>
    /\ data = <<>>
    /\ pc = "off"
    /\ missing = <<>>
    /\ available = <<>>
    /\ err = NoErr
    /\ solver = Idle

NextNote ==
    \/ NtfReturn
    \/ NtfRaise

SpecNote == InitNote /\ [][NextNote]_vars

(***************************************************************************)
(* Vocabulary of the properties.                                           *)
(***************************************************************************)
\* complete_data returned normally (whatever the printer does afterwards)
Succeeded == pc \in {"return", "printed", "print_raised"}

\* complete_data raised
Failed == pc = "raised"

\* the note conversion is not asked for, or its note is a key of the table
NoteRecognized(i) ==
    ("freq" \notin DOMAIN i /\ "note" \in DOMAIN i) => i["note"] \in DOMAIN notes

\* the primaries an input leaves missing once the auxiliary derivations
\* are made, read off the input alone
MissingAfterAux(i) ==
    {p \in Primaries :
        /\ p \notin DOMAIN i
        /\ p = "freq" => "note" \notin DOMAIN i
        /\ p = "linear_mass" =>
              ~ /\ "volumic_mass" \in DOMAIN i
                /\ "radius" \in DOMAIN i \/ "diameter" \in DOMAIN i}

\* Mersenne's law, free of roots and quotients: (2 f L)^2 mu = T
MersenneHolds(v) ==
    Mul(Square(Mul(Two, Mul(v["freq"], v["length"]))), v["linear_mass"]) = v["tension"]

\* the steps after the radius step, and after the linear mass step
PastRadiusStep ==
    \/ pc \in {"linear_mass", "find", "compute", "radius_back"}
    \/ Succeeded
    \/ Failed /\ err.type # "KeyError"

PastLinearMassStep == PastRadiusStep /\ pc # "linear_mass"

\* str.lower() on the characters of a note name
LowerChar(c) ==
    CASE c = "A" -> "a" [] c = "B" -> "b" [] c = "C" -> "c" [] c = "D" -> "d"
      [] c = "E" -> "e" [] c = "F" -> "f" [] c = "G" -> "g" [] c = "H" -> "h"
      [] OTHER -> c

Lower(s) == [i \in DOMAIN s |-> LowerChar(s[i])]

(***************************************************************************)
(* C1.  An input with positive values and a recognized note that leaves    *)
(* exactly one primary missing after the auxiliary derivations is          *)
(* completed: complete_data returns, all four primaries are defined, and   *)
(* the computed one satisfies Mersenne's law with the other three.         *)
(***************************************************************************)
C1_OneMissingIsSolved ==
    (NoteRecognized(input) /\ Cardinality(MissingAfterAux(input)) = 1) =>
        /\ ~Failed
        /\ Succeeded =>
              /\ Primaries \subseteq DOMAIN data
              /\ MersenneHolds(data)
              /\ \A p \in Primaries \cap DOMAIN available : data[p] = available[p]
              /\ {missing} = MissingAfterAux(input)

C1_Witness ==
    /\ pc = "return"
    /\ MissingAfterAux(input) = {"length"}
    /\ {"note", "diameter", "volumic_mass"} \subseteq DOMAIN input
    /\ DOMAIN input \cap {"freq", "linear_mass"} = {}
    /\ MersenneHolds(data)

(***************************************************************************)
(* C2.  complete_data raises RuntimeWarning("Nothing to compute") exactly  *)
(* when no primary is missing after the auxiliary derivations, whether     *)
(* the four were supplied or freq / linear_mass were derived.              *)
(***************************************************************************)
C2_NothingToComputeIff ==
    /\ err.type = "RuntimeWarning" =>
          /\ Failed
          /\ NoteRecognized(input)
          /\ MissingAfterAux(input) = {}
    /\ (NoteRecognized(input) /\ MissingAfterAux(input) = {}) =>
          /\ pc \notin {"compute", "radius_back"}
          /\ ~Succeeded
          /\ Failed => err.type = "RuntimeWarning"

C2_Witness ==
    /\ Failed
    /\ err.type = "RuntimeWarning"
    /\ DOMAIN input \cap {"freq", "linear_mass"} = {}
    /\ {"freq", "linear_mass"} \subseteq DOMAIN data

(***************************************************************************)
(* C3.  With two or more primaries missing after the auxiliary             *)
(* derivations, complete_data raises RuntimeError, never reaches the       *)
(* Mersenne formulas, and the message lists exactly the missing primaries. *)
(***************************************************************************)
C3_UnderdeterminedRaises ==
    (NoteRecognized(input) /\ Cardinality(MissingAfterAux(input)) >= 2) =>
        /\ pc \notin {"compute", "radius_back"}
        /\ ~Succeeded
        /\ Failed =>
              /\ err.type = "RuntimeError"
              /\ {err.arg[n] : n \in DOMAIN err.arg} = MissingAfterAux(input)
              /\ Len(err.arg) = Cardinality(MissingAfterAux(input))
              /\ DOMAIN data \cap MissingAfterAux(input) = {}

C3_Witness ==
    /\ Failed
    /\ err.type = "RuntimeError"
    /\ err.arg = <<"linear_mass", "length">>
    /\ {"note", "radius"} \subseteq DOMAIN input
    /\ "freq" \notin DOMAIN input

(***************************************************************************)
(* C4.  As claimed: get_freq returns (length/2) * sqrt(tension /           *)
(* linear_mass), so that doubling the length doubles the frequency.        *)
(***************************************************************************)
C4_FreqProportionalToLength ==
    (solver.pc = "on" /\ solver.calls # <<>> /\ solver.calls[Len(solver.calls)] = "freq") =>
        /\ solver.vals.freq =
              Mul(Div(solver.prev.length, Two),
                  Sqrt(Div(solver.prev.tension, solver.prev.linear_mass)))
        /\ get_freq(Mul(Two, solver.prev.length), solver.prev.tension,
                    solver.prev.linear_mass) = Mul(Two, solver.vals.freq)

(***************************************************************************)
(* C4, amended.  get_freq returns sqrt(tension / linear_mass) / (2 *       *)
(* length): the returned f satisfies (2 f length)^2 linear_mass = tension, *)
(* and doubling the length halves the frequency.                           *)
(***************************************************************************)
C4_FreqInverseToLength ==
    (solver.pc = "on" /\ solver.calls # <<>> /\ solver.calls[Len(solver.calls)] = "freq") =>
        /\ MersenneHolds([solver.prev EXCEPT !.freq = solver.vals.freq])
        /\ Mul(Two, get_freq(Mul(Two, solver.prev.length), solver.prev.tension,
                             solver.prev.linear_mass)) = solver.vals.freq

C4_Witness ==
    /\ solver.pc = "on"
    /\ solver.calls = <<"freq">>
    /\ solver.prev.length # One
    /\ solver.prev.tension # solver.prev.linear_mass
    /\ solver.vals.freq # solver.prev.freq

(***************************************************************************)
(* C5.  The four formulas are mutually consistent: once any one of them    *)
(* has solved its variable from the other three, each of the four          *)
(* formulas recovers the value its variable already has.                   *)
(***************************************************************************)
C5_RoundTrip ==
    (solver.pc = "on" /\ Len(solver.calls) >= 2) => solver.vals = solver.prev

C5_Witness ==
    /\ solver.pc = "on"
    /\ solver.calls = <<"freq", "length", "tension">>
    /\ solver.vals.length # One
    /\ solver.vals.freq # One
    /\ solver.vals.tension # solver.vals.linear_mass

(***************************************************************************)
(* C6.  As claimed: note lookup is case-insensitive; a recognized name in  *)
(* any mix of cases gives the frequency of its lower-case spelling.        *)
(***************************************************************************)
C6_CaseInsensitive ==
    (ntf.pc \in {"returned", "raised"} /\ Lower(ntf.note) \in DOMAIN notes) =>
        /\ ntf.pc = "returned"
        /\ ntf.ret = note_to_freq(Lower(ntf.note), ntf.octave, ntf.basefreq)

(***************************************************************************)
(* C7.  Diameter takes precedence: past the radius step radius is          *)
(* diameter/2 whatever radius was supplied, the linear mass derived from   *)
(* the radius uses that value, and a completed set that holds both has     *)
(* diameter = 2 radius.                                                    *)
(***************************************************************************)
C7_DiameterPrecedence ==
    /\ (PastRadiusStep /\ "diameter" \in DOMAIN input) =>
          /\ "radius" \in DOMAIN data
          /\ Mul(data["radius"], Two) = input["diameter"]
    /\ ( /\ PastLinearMassStep
         /\ {"diameter", "volumic_mass"} \subseteq DOMAIN input
         /\ "linear_mass" \notin DOMAIN input ) =>
          /\ "linear_mass" \in DOMAIN data
          /\ Mul(data["linear_mass"], Square(Two)) =
                Mul(Mul(input["volumic_mass"], pi), Square(input["diameter"]))
    /\ (Succeeded /\ {"radius", "diameter"} \subseteq DOMAIN data) =>
          Mul(data["radius"], Two) = data["diameter"]

C7_Witness ==
    /\ pc = "return"
    /\ {"diameter", "radius", "volumic_mass"} \subseteq DOMAIN input
    /\ "linear_mass" \notin DOMAIN input
    /\ Mul(input["radius"], Two) # input["diameter"]
    /\ data["radius"] # input["radius"]

(***************************************************************************)
(* C8.  complete_data never overwrites a primary the caller supplied.      *)
(***************************************************************************)
C8_SuppliedPrimariesKept ==
    \A p \in Primaries \cap DOMAIN input :
        p \in DOMAIN data /\ data[p] = input[p]

C8_Witness ==
    /\ pc = "return"
    /\ {"freq", "note", "octave", "basefreq"} \subseteq DOMAIN input
    /\ {"linear_mass", "diameter", "volumic_mass"} \subseteq DOMAIN input
    /\ NoteKnown(input["note"])
    /\ note_to_freq_kw(NoteData(input)) # input["freq"]
    /\ radius_to_linear_mass(data["radius"], data["volumic_mass"]) # input["linear_mass"]

(***************************************************************************)
(* C9.  As claimed: after the nothing-to-compute error the set the caller  *)
(* holds is identical to the one passed in.                                *)
(***************************************************************************)
C9_UntouchedOnWarning ==
    err.type = "RuntimeWarning" => data = input

(***************************************************************************)
(* C9, amended.  After the nothing-to-compute error no Mersenne formula    *)
(* and no reverse radius derivation has run: every key of the input but    *)
(* radius keeps its value, and the set differs from the input at most by   *)
(* the auxiliary derivations (freq added from note, radius set to          *)
(* diameter/2, linear_mass added from radius and volumic_mass); it is the  *)
(* input itself when all four primaries were supplied and no diameter.     *)
(***************************************************************************)
C9_OnlyAuxiliaryOnWarning ==
    err.type = "RuntimeWarning" =>
        /\ \A k \in DOMAIN input \ {"radius"} : k \in DOMAIN data /\ data[k] = input[k]
        /\ DOMAIN data \ DOMAIN input \subseteq {"freq", "radius", "linear_mass"}
        /\ "freq" \in DOMAIN data \ DOMAIN input => "note" \in DOMAIN input
        /\ "linear_mass" \in DOMAIN data \ DOMAIN input => "volumic_mass" \in DOMAIN input
        /\ "diameter" \notin DOMAIN input =>
              /\ "radius" \in DOMAIN data <=> "radius" \in DOMAIN input
              /\ "radius" \in DOMAIN input => data["radius"] = input["radius"]
        /\ (Primaries \subseteq DOMAIN input /\ "diameter" \notin DOMAIN input) =>
              data = input

C9_Witness ==
    /\ Failed
    /\ err.type = "RuntimeWarning"
    /\ DOMAIN data \ DOMAIN input = {"freq", "radius", "linear_mass"}

(***************************************************************************)
(* C10.  As claimed: a completed set that holds radius holds diameter and  *)
(* volumic_mass too, the keys print_data then reads.                       *)
(***************************************************************************)
C10_RadiusBringsDiameterAndVolumicMass ==
    (Succeeded /\ "radius" \in DOMAIN data) =>
        {"diameter", "volumic_mass"} \subseteq DOMAIN data

====
